---- MODULE Spec2Model ----
(***************************************************************************)
(* Model of eig/src/constants.rs: the enumerations Stage, SurfaceCharacter, *)
(* FabricFeature and IntervalRole, the colour palettes, the geometric       *)
(* constants and default_fabric_feature, with f32 arithmetic carried out    *)
(* bit for bit (round to nearest, ties to even).                            *)
(*                                                                         *)
(* TLC integers are 32 bits wide.  The f32 operations are arranged to stay  *)
(* within them; decimal literals and the exact comparisons against real     *)
(* numbers use natural numbers of any width, held as little-endian          *)
(* sequences of 12-bit limbs without leading zero limbs.                    *)
(***************************************************************************)
EXTENDS Integers, Sequences, FiniteSets

(***************************************************************************)
(* Natural numbers of any width.  Carries are resolved by lookahead rather  *)
(* than limb by limb, which keeps the evaluation shallow.                   *)
(***************************************************************************)
LimbBits == 12
Base == 2^LimbBits

Max(x, y) == IF x > y THEN x ELSE y

\* the number of bits of n, 0 <= n < 2^31
IntBitLen(n) == IF n = 0 THEN 0 ELSE CHOOSE k \in 1..31 : n \div 2^(k - 1) = 1

At(a, i) == IF 1 <= i /\ i <= Len(a) THEN a[i] ELSE 0

\* the function f on 1..n as a sequence, its elements computed once
Tuple(f) == SubSeq(f, 1, Len(f))

\* a without its leading zero limbs
BigTrim(a) ==
    LET used == {i \in 1..Len(a) : a[i] # 0}
        top  == IF used = {} THEN 0 ELSE CHOOSE i \in used : \A k \in used : k <= i
    IN  SubSeq(a, 1, top)

\* for 0 <= n < 2^31
BigFromInt(n) == BigTrim(<<n % Base, (n \div Base) % Base, n \div (Base * Base)>>)

\* for a < 2^31
BigToInt(a) == At(a, 1) + Base * At(a, 2) + Base * Base * At(a, 3)

\* whether a carry (a borrow) enters limb i, given the limbs that generate
\* one and those that pass one on
CarryIn(gen, prop, i) ==
    \E j \in 1..(i - 1) : j \in gen /\ \A k \in (j + 1)..(i - 1) : k \in prop

\* the number whose limbs, before carrying, are cols, each in 0..2^30
BigNorm(cols) ==
    IF Len(cols) = 0 THEN << >> ELSE
    LET n    == Len(cols)
        w    == Tuple([i \in 1..(n + 2) |->
                   (At(cols, i) % Base) + ((At(cols, i - 1) \div Base) % Base)
                   + (At(cols, i - 2) \div (Base * Base))])
        t    == Tuple([i \in 1..(n + 3) |->
                   (At(w, i) % Base) + (At(w, i - 1) \div Base)])
        gen  == {i \in 1..(n + 3) : t[i] >= Base}
        prop == {i \in 1..(n + 3) : t[i] = Base - 1}
    IN  BigTrim(Tuple([i \in 1..(n + 4) |->
                   (At(t, i) + (IF CarryIn(gen, prop, i) THEN 1 ELSE 0)) % Base]))

BigAdd(a, b) ==
    IF Len(a) = 0 THEN b
    ELSE IF Len(b) = 0 THEN a
    ELSE BigNorm(Tuple([i \in 1..Max(Len(a), Len(b)) |-> At(a, i) + At(b, i)]))

\* a - b, for a >= b
BigSub(a, b) ==
    IF Len(b) = 0 THEN a ELSE
    LET d    == Tuple([i \in 1..Len(a) |-> a[i] - At(b, i)])
        gen  == {i \in 1..Len(a) : d[i] < 0}
        prop == {i \in 1..Len(a) : d[i] = 0}
    IN  BigTrim(Tuple([i \in 1..Len(a) |->
                   (d[i] - (IF CarryIn(gen, prop, i) THEN 1 ELSE 0)) % Base]))

\* -1, 0 or 1 as a < b, a = b or a > b
BigCmp(a, b) ==
    IF Len(a) # Len(b) THEN (IF Len(a) > Len(b) THEN 1 ELSE -1) ELSE
    LET n == Max(Len(a), Len(b))
        above(x, y) == \E i \in 1..n : /\ At(x, i) > At(y, i)
                                       /\ \A k \in (i + 1)..n : At(x, k) = At(y, k)
    IN  IF above(a, b) THEN 1 ELSE IF above(b, a) THEN -1 ELSE 0

BigLeq(a, b) == BigCmp(a, b) <= 0
BigLt(a, b) == BigCmp(a, b) < 0

\* limb k of the product before carrying: the sum of a[i] * b[k + 1 - i]
RECURSIVE BigColumn(_, _, _, _)
BigColumn(a, b, k, i) ==
    IF i > Len(a) THEN 0
    ELSE a[i] * At(b, k + 1 - i) + BigColumn(a, b, k, i + 1)

BigMul(a, b) ==
    IF Len(a) = 0 \/ Len(b) = 0 THEN << >>
    ELSE BigNorm(Tuple([k \in 1..(Len(a) + Len(b)) |-> BigColumn(a, b, k, 1)]))

BigSq(a) == BigMul(a, a)

BigMulInt(a, n) == BigMul(a, BigFromInt(n))

\* a * 2^k
BigShl(a, k) ==
    IF Len(a) = 0 THEN a ELSE
    LET w == k \div LimbBits
        s == k % LimbBits
    IN  BigNorm(Tuple([i \in 1..(Len(a) + w) |-> At(a, i - w) * 2^s]))

\* floor(a / 2^k)
BigShr(a, k) ==
    IF Len(a) = 0 THEN a ELSE
    LET w == k \div LimbBits
        s == k % LimbBits
    IN  BigTrim(Tuple([i \in 1..Max(Len(a) - w, 0) |->
            (a[i + w] \div 2^s) + (At(a, i + w + 1) % 2^s) * 2^(LimbBits - s)]))

\* whether a is a multiple of 2^k
BigLowZero(a, k) ==
    /\ \A i \in 1..(k \div LimbBits) : At(a, i) = 0
    /\ At(a, k \div LimbBits + 1) % 2^(k % LimbBits) = 0

BigPow2(k) == BigShl(<<1>>, k)

BigBitLen(a) ==
    IF Len(a) = 0 THEN 0 ELSE LimbBits * (Len(a) - 1) + IntBitLen(a[Len(a)])

\* a mod d for 0 < d < 2^18, from limb i up
RECURSIVE BigModSmallFrom(_, _, _)
BigModSmallFrom(a, d, i) ==
    IF i > Len(a) THEN 0 ELSE (BigModSmallFrom(a, d, i + 1) * Base + a[i]) % d

\* <<floor(a / d), a mod d>> for 0 < d < 2^18
BigDivSmall(a, d) ==
    << BigTrim(Tuple([i \in 1..Len(a) |->
                  (BigModSmallFrom(a, d, i + 1) * Base + a[i]) \div d])),
       BigModSmallFrom(a, d, 1) >>

\* <<floor(a / 10^n), whether a is a multiple of 10^n>>, four digits a step
RECURSIVE BigDivPow10(_, _)
BigDivPow10(a, n) ==
    IF n = 0 \/ Len(a) = 0 THEN <<a, TRUE>>
    ELSE LET step == IF n < 4 THEN n ELSE 4
             qr   == BigDivSmall(a, 10^step)
             rest == BigDivPow10(qr[1], n - step)
         IN  <<rest[1], rest[2] /\ qr[2] = 0>>

\* the number written with the decimal digits ds[i..j], j - i < 9
RECURSIVE IntFromDigits(_, _, _)
IntFromDigits(ds, i, j) ==
    IF j < i THEN 0 ELSE 10 * IntFromDigits(ds, i, j - 1) + ds[j]

\* the number written with the first i of the decimal digits ds (most
\* significant first), four digits a step
RECURSIVE BigFromDigitsTo(_, _)
BigFromDigitsTo(ds, i) ==
    IF i <= 4 THEN BigFromInt(IntFromDigits(ds, 1, i))
    ELSE BigAdd(BigMulInt(BigFromDigitsTo(ds, i - 4), 10^4),
                BigFromInt(IntFromDigits(ds, i - 3, i)))

BigFromDigits(ds) == BigFromDigitsTo(ds, Len(ds))

(***************************************************************************)
(* f32: IEEE 754 binary32 in the normal range, as sign s, 24-bit            *)
(* significand m (2^23 <= m < 2^24, or 0 for zero) and exponent e: the      *)
(* value is (-1)^s * m * 2^e.  Every value of constants.rs has a size       *)
(* between 2^-28 and 2^15, so subnormals, infinities and NaN do not occur.  *)
(***************************************************************************)
F32Zero == [s |-> 0, m |-> 0, e |-> 0]

\* n * 2^e for 0 <= n < 2^31 (plus, when sticky, a nonzero amount below n's
\* last bit, n then having 26 bits or more), rounded to nearest, ties to even
F32Round(s, n, e, sticky) ==
    IF n = 0 THEN F32Zero
    ELSE LET len == IntBitLen(n)
         IN  IF len <= 24
             THEN [s |-> s, m |-> n * 2^(24 - len), e |-> e - (24 - len)]
             ELSE LET sh   == len - 24
                      q    == n \div 2^sh
                      rem  == n % 2^sh
                      half == 2^(sh - 1)
                      up   == rem > half
                              \/ (rem = half /\ (sticky \/ q % 2 = 1))
                      m1   == IF up THEN q + 1 ELSE q
                  IN  IF m1 = 2^24
                      THEN [s |-> s, m |-> 2^23, e |-> e + sh + 1]
                      ELSE [s |-> s, m |-> m1, e |-> e + sh]

\* an integer literal with the f32 suffix, such as 100_f32
F32FromInt(n) == F32Round(0, n, 0, FALSE)

\* a decimal literal: the digits ds (most significant first), the last
\* frac of them after the decimal point.  The quotient of ds * 2^k by
\* 10^frac, of 29 bits or more, is cut to 30 bits, the rest kept as sticky.
F32Lit(ds, frac) ==
    LET num  == BigFromDigits(ds)
        k    == Max(4 * frac + 30 - BigBitLen(num), 0)
        qr   == BigDivPow10(BigShl(num, k), frac)
        cut  == Max(BigBitLen(qr[1]) - 30, 0)
    IN  IF Len(num) = 0 THEN F32Zero
        ELSE F32Round(0, BigToInt(BigShr(qr[1], cut)), cut - k,
                      ~qr[2] \/ ~BigLowZero(qr[1], cut))

F32Neg(a) == IF a.m = 0 THEN a ELSE [a EXCEPT !.s = 1 - a.s]

\* the 48-bit product a.m * b.m is formed from 12-bit halves as hi * 2^24 +
\* lo and cut to its top 30 bits
F32Mul(a, b) ==
    IF a.m = 0 \/ b.m = 0 THEN F32Zero
    ELSE LET a1  == a.m \div 2^12
             a0  == a.m % 2^12
             b1  == b.m \div 2^12
             b0  == b.m % 2^12
             mid == a1 * b0 + a0 * b1
             low == a0 * b0 + (mid % 2^12) * 2^12
             lo  == low % 2^24
             hi  == a1 * b1 + mid \div 2^12 + low \div 2^24
         IN  F32Round((a.s + b.s) % 2, hi * 2^6 + lo \div 2^18,
                      a.e + b.e + 18, lo % 2^18 # 0)

\* <<quotient, remainder>> after n more steps of long division by d < 2^24,
\* seven bits a step
RECURSIVE F32DivSteps(_, _, _, _)
F32DivSteps(q, r, d, n) ==
    IF n = 0 THEN <<q, r>>
    ELSE F32DivSteps(q * 2^7 + (r * 2^7) \div d, (r * 2^7) % d, d, n - 1)

\* b is not zero
F32Div(a, b) ==
    IF a.m = 0 THEN F32Zero
    ELSE LET qr == F32DivSteps(a.m \div b.m, a.m % b.m, b.m, 4)
         IN  F32Round((a.s + b.s) % 2, qr[1], a.e - b.e - 28, qr[2] # 0)

\* the smaller operand is shifted right below three guard bits, what is
\* shifted out kept as a sticky last bit
F32Add(a, b) ==
    IF a.m = 0 THEN b
    ELSE IF b.m = 0 THEN a
    ELSE LET big   == IF a.e > b.e \/ (a.e = b.e /\ a.m >= b.m) THEN a ELSE b
             small == IF a.e > b.e \/ (a.e = b.e /\ a.m >= b.m) THEN b ELSE a
             d     == big.e - small.e
             x     == big.m * 2^3
             y0    == small.m * 2^3
             y     == IF d >= 27 THEN 1
                      ELSE (y0 \div 2^d) + (IF y0 % 2^d # 0 /\ (y0 \div 2^d) % 2 = 0
                                            THEN 1 ELSE 0)
         IN  IF a.s = b.s THEN F32Round(big.s, x + y, big.e - 3, FALSE)
             ELSE F32Round(big.s, x - y, big.e - 3, FALSE)

F32Sub(a, b) == F32Add(a, F32Neg(b))

\* the square root of n * 2^28 by the digit-by-digit method, two bits of
\* n a step: <<root, remainder>> after cnt steps from step t, root r and
\* remainder rem; n has 26 bits at most, the bits below them are 0
RECURSIVE F32SqrtSteps(_, _, _, _, _)
F32SqrtSteps(n, r, rem, t, cnt) ==
    IF cnt = 0 THEN <<r, rem>>
    ELSE LET pair == IF t <= 13 THEN (n \div 4^(13 - t)) % 4 ELSE 0
             cur  == rem * 4 + pair
             try  == 4 * r + 1
         IN  IF cur >= try
             THEN F32SqrtSteps(n, 2 * r + 1, cur - try, t + 1, cnt - 1)
             ELSE F32SqrtSteps(n, 2 * r, cur, t + 1, cnt - 1)

\* a is not negative
F32Sqrt(a) ==
    IF a.m = 0 THEN F32Zero
    ELSE LET odd == a.e % 2 = 1
             n   == IF odd THEN 2 * a.m ELSE a.m
             ev  == IF odd THEN a.e - 1 ELSE a.e
             s1  == F32SqrtSteps(n, 0, 0, 1, 9)
             s2  == F32SqrtSteps(n, s1[1], s1[2], 10, 9)
             s3  == F32SqrtSteps(n, s2[1], s2[2], 19, 9)
         IN  F32Round(0, s3[1], (ev - 28) \div 2, s3[2] # 0)

(***************************************************************************)
(* The geometric constants, constants.rs lines 94 to 100.                   *)
(***************************************************************************)
\* 1.141213562373095: the second decimal mistyped
ROOT2Mistyped == F32Lit(<<1, 1, 4, 1, 2, 1, 3, 5, 6, 2, 3, 7, 3, 0, 9, 5>>, 15)
ROOT2 == F32Lit(<<1, 4, 1, 4, 2, 1, 3, 5, 6, 2, 3, 7, 3, 0, 9, 5>>, 15)
ROOT3 == F32Lit(<<1, 7, 3, 2, 0, 5, 0, 8, 0, 7, 5, 6, 8, 8, 7, 7>>, 15)
ROOT5 == F32Lit(<<2, 2, 3, 6, 0, 6, 7, 9, 7, 7, 4, 9, 9, 7, 9>>, 14)
\* 1 + ROOT5, the division by 2 left out
PHINotHalved == F32Add(F32FromInt(1), ROOT5)
PHI == F32Div(F32Add(F32FromInt(1), ROOT5), F32FromInt(2))
CROSS1 == F32Lit(<<0, 5>>, 1)
CROSS2 ==
    F32Mul(F32Sub(F32Div(PHI, F32FromInt(3)),
                  F32Div(F32FromInt(1), F32FromInt(6))), ROOT3)
\* PHI / 3 * ROOT3 + 1 + ROOT2 / ROOT3: a sign changed
CROSS3PlusOne ==
    F32Add(F32Add(F32Mul(F32Div(PHI, F32FromInt(3)), ROOT3), F32FromInt(1)),
           F32Div(ROOT2, ROOT3))
CROSS3 ==
    F32Add(F32Sub(F32Mul(F32Div(PHI, F32FromInt(3)), ROOT3), F32FromInt(1)),
           F32Div(ROOT2, ROOT3))

(***************************************************************************)
(* The palettes, constants.rs lines 8 to 37.  The literals of ROLE_COLORS   *)
(* are written with three decimals and are kept here in thousandths, those  *)
(* of RAINBOW with four and are kept in ten-thousandths; Dec3 and Dec4      *)
(* convert such a literal to f32 as the compiler does.                      *)
(***************************************************************************)
\* the decimal point one place to the right
Dec3Shifted(n) ==
    F32Lit(<<n \div 1000, (n \div 100) % 10, (n \div 10) % 10, n % 10>>, 2)
Dec3(n) ==
    F32Lit(<<n \div 1000, (n \div 100) % 10, (n \div 10) % 10, n % 10>>, 3)

Dec4(n) ==
    F32Lit(<<n \div 10000, (n \div 1000) % 10, (n \div 100) % 10,
             (n \div 10) % 10, n % 10>>, 4)

ATTENUATED_COLOR == <<F32Zero, F32Zero, F32Zero>>

SLACK_COLOR == <<F32Zero, F32FromInt(1), F32Zero>>

RoleColorLiterals ==
    << <<799, 519, 304>>,
       <<879, 295, 374>>,
       <<215, 629, 747>>,
       <<618, 126, 776>>,
       <<670, 627, 398>>,
       <<242, 879, 410>>,
       <<613, 692, 382>>,
       <<705, 709, 19>>,
       <<577, 577, 577>> >>

ROLE_COLORS ==
    Tuple([i \in 1..Len(RoleColorLiterals) |->
              Tuple([c \in 1..3 |-> Dec3(RoleColorLiterals[i][c])])])

RainbowLiterals ==
    << <<1373, 1608, 9686>>,
       <<0, 4824, 10000>>,
       <<0, 6471, 10000>>,
       <<0, 7686, 8431>>,
       <<0, 8667, 6784>>,
       <<3059, 8667, 5137>>,
       <<5020, 8549, 3216>>,
       <<6863, 8235, 0>>,
       <<8314, 7098, 0>>,
       <<9294, 5804, 0>>,
       <<9843, 4431, 1647>>,
       <<9882, 3020, 3020>> >>

RAINBOW ==
    Tuple([i \in 1..Len(RainbowLiterals) |->
              Tuple([c \in 1..3 |-> Dec4(RainbowLiterals[i][c])])])

Palettes == [ROLE_COLORS |-> ROLE_COLORS, RAINBOW |-> RAINBOW]

(***************************************************************************)
(* The enumerations, constants.rs lines 42 to 92 and 134 to 147: the        *)
(* variants in the order of declaration.                                    *)
(***************************************************************************)
Stage == <<"Busy", "Growing", "Shaping", "Slack", "Realizing", "Realized">>

SurfaceCharacter == <<"Frozen", "Sticky", "Slippery", "Bouncy">>

\* BowEndLength declared before BowMidLength
FabricFeatureReordered ==
    <<"Gravity", "Drag", "PretenstFactor", "IterationsPerFrame",
      "IntervalCountdown", "RealizingCountdown", "SlackThreshold",
      "ShapingPretenstFactor", "ShapingStiffnessFactor", "ShapingDrag",
      "MaxStrain", "VisualStrain", "NexusPushLength", "ColumnPushLength",
      "TriangleLength", "RingLength", "NexusCrossLength",
      "ColumnCrossLength", "BowEndLength", "BowMidLength", "PushOverPull",
      "PushRadiusFactor", "PullRadiusFactor", "MaxStiffness">>
FabricFeature ==
    <<"Gravity", "Drag", "PretenstFactor", "IterationsPerFrame",
      "IntervalCountdown", "RealizingCountdown", "SlackThreshold",
      "ShapingPretenstFactor", "ShapingStiffnessFactor", "ShapingDrag",
      "MaxStrain", "VisualStrain", "NexusPushLength", "ColumnPushLength",
      "TriangleLength", "RingLength", "NexusCrossLength",
      "ColumnCrossLength", "BowMidLength", "BowEndLength", "PushOverPull",
      "PushRadiusFactor", "PullRadiusFactor", "MaxStiffness">>

IntervalRole ==
    <<"NexusPush", "ColumnPush", "Triangle", "Ring", "NexusCross",
      "ColumnCross", "BowMid", "BowEnd", "FacePull">>

Enums == [Stage |-> Stage, SurfaceCharacter |-> SurfaceCharacter,
          FabricFeature |-> FabricFeature, IntervalRole |-> IntervalRole]

Variants(enum) == {enum[i] : i \in 1..Len(enum)}

\* the discriminants counted from 1
DiscriminantFromOne(enum, v) == CHOOSE i \in 1..Len(enum) : enum[i] = v

\* a variant without an explicit discriminant has the discriminant of the
\* variant before it plus one, the first one 0
Discriminant(enum, v) == (CHOOSE i \in 1..Len(enum) : enum[i] = v) - 1

\* #[derive(PartialEq)] and #[derive(PartialOrd)] on an enumeration without
\* fields compare the discriminants
Eq(enum, a, b) == Discriminant(enum, a) = Discriminant(enum, b)

\* the operands compared the wrong way round
PartialCmpReversed(enum, a, b) ==
    LET x == Discriminant(enum, a)
        y == Discriminant(enum, b)
    IN  IF y < x THEN "Less" ELSE IF x = y THEN "Equal" ELSE "Greater"
PartialCmp(enum, a, b) ==
    LET x == Discriminant(enum, a)
        y == Discriminant(enum, b)
    IN  IF x < y THEN "Less" ELSE IF x = y THEN "Equal" ELSE "Greater"

Lt(enum, a, b) == PartialCmp(enum, a, b) = "Less"

(***************************************************************************)
(* default_fabric_feature, constants.rs lines 102 to 132.                   *)
(***************************************************************************)
\* the defaults of BowMidLength and BowEndLength exchanged
DefaultFabricFeatureSwapped(fabric_feature) ==
    CASE fabric_feature = "Gravity" -> F32Lit(<<0, 0, 0, 0, 0, 0, 0, 1>>, 7)
      [] fabric_feature = "Drag" -> F32Lit(<<0, 0, 0, 0, 1>>, 4)
      [] fabric_feature = "PretenstFactor" -> F32Lit(<<0, 0, 3>>, 2)
      [] fabric_feature = "IterationsPerFrame" -> F32FromInt(100)
      [] fabric_feature = "IntervalCountdown" -> F32FromInt(1000)
      [] fabric_feature = "RealizingCountdown" -> F32FromInt(30000)
      [] fabric_feature = "SlackThreshold" -> F32Lit(<<0, 0, 0, 0, 1>>, 4)
      [] fabric_feature = "ShapingPretenstFactor" -> F32Lit(<<0, 1>>, 1)
      [] fabric_feature = "ShapingStiffnessFactor" -> F32FromInt(10)
      [] fabric_feature = "ShapingDrag" -> F32Lit(<<0, 1>>, 1)
      [] fabric_feature = "MaxStrain" -> F32Lit(<<0, 1>>, 1)
      [] fabric_feature = "VisualStrain" -> F32FromInt(1)
      [] fabric_feature = "NexusPushLength" -> PHI
      [] fabric_feature = "ColumnPushLength" -> ROOT2
      [] fabric_feature = "TriangleLength" -> F32FromInt(1)
      [] fabric_feature = "RingLength" ->
            F32Sqrt(F32Sub(F32FromInt(2),
                           F32Mul(F32FromInt(2),
                                  F32Sqrt(F32Div(F32FromInt(2), F32FromInt(3))))))
      [] fabric_feature = "NexusCrossLength" ->
            F32Sqrt(F32Add(F32Add(F32Mul(CROSS1, CROSS1), F32Mul(CROSS2, CROSS2)),
                           F32Mul(CROSS3, CROSS3)))
      [] fabric_feature = "ColumnCrossLength" -> F32FromInt(1)
      [] fabric_feature = "BowMidLength" -> F32Lit(<<0, 6>>, 1)
      [] fabric_feature = "BowEndLength" -> F32Lit(<<0, 4>>, 1)
      [] fabric_feature = "PushOverPull" -> F32FromInt(1)
      [] fabric_feature = "PushRadiusFactor" -> F32FromInt(4)
      [] fabric_feature = "PullRadiusFactor" -> F32FromInt(2)
      [] fabric_feature = "MaxStiffness" -> F32Lit(<<0, 0, 0, 0, 5>>, 4)
DefaultFabricFeature(fabric_feature) ==
    CASE fabric_feature = "Gravity" -> F32Lit(<<0, 0, 0, 0, 0, 0, 0, 1>>, 7)
      [] fabric_feature = "Drag" -> F32Lit(<<0, 0, 0, 0, 1>>, 4)
      [] fabric_feature = "PretenstFactor" -> F32Lit(<<0, 0, 3>>, 2)
      [] fabric_feature = "IterationsPerFrame" -> F32FromInt(100)
      [] fabric_feature = "IntervalCountdown" -> F32FromInt(1000)
      [] fabric_feature = "RealizingCountdown" -> F32FromInt(30000)
      [] fabric_feature = "SlackThreshold" -> F32Lit(<<0, 0, 0, 0, 1>>, 4)
      [] fabric_feature = "ShapingPretenstFactor" -> F32Lit(<<0, 1>>, 1)
      [] fabric_feature = "ShapingStiffnessFactor" -> F32FromInt(10)
      [] fabric_feature = "ShapingDrag" -> F32Lit(<<0, 1>>, 1)
      [] fabric_feature = "MaxStrain" -> F32Lit(<<0, 1>>, 1)
      [] fabric_feature = "VisualStrain" -> F32FromInt(1)
      [] fabric_feature = "NexusPushLength" -> PHI
      [] fabric_feature = "ColumnPushLength" -> ROOT2
      [] fabric_feature = "TriangleLength" -> F32FromInt(1)
      [] fabric_feature = "RingLength" ->
            F32Sqrt(F32Sub(F32FromInt(2),
                           F32Mul(F32FromInt(2),
                                  F32Sqrt(F32Div(F32FromInt(2), F32FromInt(3))))))
      [] fabric_feature = "NexusCrossLength" ->
            F32Sqrt(F32Add(F32Add(F32Mul(CROSS1, CROSS1), F32Mul(CROSS2, CROSS2)),
                           F32Mul(CROSS3, CROSS3)))
      [] fabric_feature = "ColumnCrossLength" -> F32FromInt(1)
      [] fabric_feature = "BowMidLength" -> F32Lit(<<0, 4>>, 1)
      [] fabric_feature = "BowEndLength" -> F32Lit(<<0, 6>>, 1)
      [] fabric_feature = "PushOverPull" -> F32FromInt(1)
      [] fabric_feature = "PushRadiusFactor" -> F32FromInt(4)
      [] fabric_feature = "PullRadiusFactor" -> F32FromInt(2)
      [] fabric_feature = "MaxStiffness" -> F32Lit(<<0, 0, 0, 0, 5>>, 4)

\* the functions the module defines for its host (#[wasm_bindgen] pub fn),
\* each as the function from its arguments to its result
Module ==
    [default_fabric_feature |->
        [f \in Variants(FabricFeature) |-> DefaultFabricFeature(f)]]

(***************************************************************************)
(* The host's use of the module: op is the last operation, arg its          *)
(* arguments and ret its result.                                            *)
(***************************************************************************)
VARIABLES op, arg, ret

vars == <<op, arg, ret>>

Init == op = "none" /\ arg = << >> /\ ret = << >>

\* a call of default_fabric_feature
CallDefaultFabricFeature ==
    \E f \in Variants(FabricFeature) :
        /\ op' = "default_fabric_feature"
        /\ arg' = <<f>>
        /\ ret' = DefaultFabricFeature(f)

\* a < b on two stages
CompareLt ==
    \E a \in Variants(Stage), b \in Variants(Stage) :
        /\ op' = "lt"
        /\ arg' = <<a, b>>
        /\ ret' = Lt(Stage, a, b)

\* a == b on two variants of an enumeration
CompareEq ==
    \E name \in DOMAIN Enums :
        \E a \in Variants(Enums[name]), b \in Variants(Enums[name]) :
            /\ op' = "eq"
            /\ arg' = <<name, a, b>>
            /\ ret' = Eq(Enums[name], a, b)

\* a variant passed to the host as its tag (variant as u8)
CastToTag ==
    \E name \in DOMAIN Enums :
        \E v \in Variants(Enums[name]) :
            /\ op' = "as"
            /\ arg' = <<name, v>>
            /\ ret' = Discriminant(Enums[name], v)

\* an entry of a palette read by its index
ReadPalette ==
    \E name \in DOMAIN Palettes :
        \E i \in 0..(Len(Palettes[name]) - 1) :
            /\ op' = "index"
            /\ arg' = <<name, i>>
            /\ ret' = Palettes[name][i + 1]

Next ==
    \/ CallDefaultFabricFeature
    \/ CompareLt
    \/ CompareEq
    \/ CastToTag
    \/ ReadPalette

Spec == Init /\ [][Next]_vars

(***************************************************************************)
(* Decimal values, for the statements below: an f32 against the exact       *)
(* decimal number with the digits ds, the last frac of them decimals.       *)
(***************************************************************************)
IsF32(v) ==
    /\ DOMAIN v = {"s", "m", "e"}
    /\ v.s \in {0, 1}
    /\ v.m = 0 \/ (2^23 <= v.m /\ v.m < 2^24)

BigPow10(n) == BigFromDigits(Tuple([i \in 1..(n + 1) |-> IF i = 1 THEN 1 ELSE 0]))

BigDist(a, b) == IF BigLeq(a, b) THEN BigSub(b, a) ELSE BigSub(a, b)

\* no f32 is nearer to the decimal than v: the distance is at most half the
\* step to the next f32 on that side, and in a tie v.m is even
NearestF32(v, ds, frac) ==
    LET d    == BigFromDigits(ds)
        t    == BigPow10(frac)
        up   == Max(v.e, 0)
        down == Max(0 - v.e, 0)
        mine == BigShl(BigMul(BigFromInt(v.m), t), up)
        real == BigShl(d, down)
        step == IF v.m = 2^23 /\ BigLt(real, mine)
                THEN BigShl(t, up) ELSE BigShl(t, up + 1)
        dist == BigShl(BigDist(mine, real), 2)
    IN  IF Len(d) = 0 THEN v.m = 0
        ELSE /\ v.s = 0
             /\ 2^23 <= v.m /\ v.m < 2^24
             /\ BigLt(dist, step) \/ (dist = step /\ v.m % 2 = 0)

(***************************************************************************)
(* C1: default_fabric_feature has a result for each of the 24 variants of   *)
(* FabricFeature, and for a variant whose default in the table is a literal *)
(* the result is that literal, as the f32 nearest to it.                    *)
(***************************************************************************)
FeatureTable ==
    << <<"Gravity", <<1>>, 7>>, <<"Drag", <<1>>, 4>>,
       <<"PretenstFactor", <<3>>, 2>>, <<"IterationsPerFrame", <<1, 0, 0>>, 0>>,
       <<"IntervalCountdown", <<1, 0, 0, 0>>, 0>>,
       <<"RealizingCountdown", <<3, 0, 0, 0, 0>>, 0>>,
       <<"SlackThreshold", <<1>>, 4>>, <<"ShapingPretenstFactor", <<1>>, 1>>,
       <<"ShapingStiffnessFactor", <<1, 0>>, 0>>, <<"ShapingDrag", <<1>>, 1>>,
       <<"MaxStrain", <<1>>, 1>>, <<"VisualStrain", <<1, 0>>, 1>>,
       <<"TriangleLength", <<1, 0>>, 1>>, <<"ColumnCrossLength", <<1, 0>>, 1>>,
       <<"BowMidLength", <<4>>, 1>>, <<"BowEndLength", <<6>>, 1>>,
       <<"PushOverPull", <<1, 0>>, 1>>, <<"PushRadiusFactor", <<4, 0>>, 1>>,
       <<"PullRadiusFactor", <<2, 0>>, 1>>, <<"MaxStiffness", <<5>>, 4>> >>

C1_FeatureDefaults ==
    /\ Cardinality(Variants(FabricFeature)) = 24
    /\ op = "default_fabric_feature" =>
          /\ arg[1] \in Variants(FabricFeature)
          /\ IsF32(ret)
          /\ \A i \in 1..Len(FeatureTable) :
                arg[1] = FeatureTable[i][1] =>
                    NearestF32(ret, FeatureTable[i][2], FeatureTable[i][3])

C1_Witness ==
    /\ op = "default_fabric_feature"
    /\ arg = <<"MaxStiffness">>
    /\ ret = [s |-> 0, m |-> 8589935, e |-> -34]

(***************************************************************************)
(* C2: < on Stage is the order of declaration, Busy < Growing < Shaping <   *)
(* Slack < Realizing < Realized; of a < b, a == b and b < a exactly one     *)
(* holds, and a == b only for the same variant.                             *)
(***************************************************************************)
StageChain == <<"Busy", "Growing", "Shaping", "Slack", "Realizing", "Realized">>

ChainPos(v) == CHOOSE i \in 1..Len(StageChain) : StageChain[i] = v

ExactlyOne(p, q, r) == (p /\ ~q /\ ~r) \/ (~p /\ q /\ ~r) \/ (~p /\ ~q /\ r)

C2_StageOrder ==
    /\ op = "lt" =>
          /\ ret <=> ChainPos(arg[1]) < ChainPos(arg[2])
          /\ ExactlyOne(ret, Eq(Stage, arg[1], arg[2]), Lt(Stage, arg[2], arg[1]))
    /\ op = "eq" /\ arg[1] = "Stage" =>
          /\ ret <=> arg[2] = arg[3]
          /\ ExactlyOne(Lt(Stage, arg[2], arg[3]), ret, Lt(Stage, arg[3], arg[2]))

C2_Witness == op = "lt" /\ arg = <<"Slack", "Realizing">> /\ ret = TRUE

(***************************************************************************)
(* C6: the tags of each enumeration are the consecutive integers from 0 in  *)
(* the order of declaration, one for each variant: Stage has 6 variants     *)
(* (Busy 0, Realized 5), SurfaceCharacter 4 (Frozen 0, Bouncy 3),           *)
(* FabricFeature 24 (Gravity 0, MaxStiffness 23) and IntervalRole 9         *)
(* (NexusPush 0, FacePull 8).                                               *)
(***************************************************************************)
EnumEnds ==
    [Stage |-> <<6, "Busy", "Realized">>,
     SurfaceCharacter |-> <<4, "Frozen", "Bouncy">>,
     FabricFeature |-> <<24, "Gravity", "MaxStiffness">>,
     IntervalRole |-> <<9, "NexusPush", "FacePull">>]

C6_Tags ==
    /\ DOMAIN Enums = DOMAIN EnumEnds
    /\ \A name \in DOMAIN Enums :
          /\ Cardinality(Variants(Enums[name])) = EnumEnds[name][1]
          /\ {Discriminant(Enums[name], v) : v \in Variants(Enums[name])}
                = 0..(EnumEnds[name][1] - 1)
          /\ Discriminant(Enums[name], EnumEnds[name][2]) = 0
          /\ Discriminant(Enums[name], EnumEnds[name][3]) = EnumEnds[name][1] - 1
          /\ \A i \in 1..Len(Enums[name]) :
                Discriminant(Enums[name], Enums[name][i]) = i - 1
    /\ op = "as" =>
          /\ ret \in 0..(EnumEnds[arg[1]][1] - 1)
          /\ arg[2] = EnumEnds[arg[1]][2] <=> ret = 0
          /\ arg[2] = EnumEnds[arg[1]][3] <=> ret = EnumEnds[arg[1]][1] - 1

C6_Witness == op = "as" /\ arg = <<"IntervalRole", "FacePull">> /\ ret = 8

(***************************************************************************)
(* C7: ROLE_COLORS has 9 entries and RAINBOW 12, each entry three           *)
(* components, each of them at least 0 and at most 1.                       *)
(***************************************************************************)
InUnit(c) ==
    /\ IsF32(c)
    /\ c.m = 0 \/ (c.s = 0 /\ (c.e < -23 \/ (c.e = -23 /\ c.m = 2^23)))

IsColor(t) == Len(t) = 3 /\ \A c \in 1..3 : InUnit(t[c])

C7_Palettes ==
    /\ Len(ROLE_COLORS) = 9
    /\ Len(RAINBOW) = 12
    /\ \A i \in 1..Len(ROLE_COLORS) : IsColor(ROLE_COLORS[i])
    /\ \A i \in 1..Len(RAINBOW) : IsColor(RAINBOW[i])
    /\ op = "index" => IsColor(ret)

C7_Witness ==
    /\ op = "index"
    /\ arg = <<"RAINBOW", 11>>
    /\ ret[1] = [s |-> 0, m |-> 16579245, e |-> -24]

(***************************************************************************)
(* C10: the feature named after one of the first eight roles, NexusPush to  *)
(* BowEnd, with Length appended has the role's tag plus 12 as its tag;      *)
(* FacePull, tag 8, has no length feature, the feature with tag 20 being    *)
(* PushOverPull.                                                            *)
(***************************************************************************)
RolesWithLength ==
    <<"NexusPush", "ColumnPush", "Triangle", "Ring", "NexusCross",
      "ColumnCross", "BowMid", "BowEnd">>

C10_LengthLayout ==
    /\ \A t \in 0..7 :
          /\ Discriminant(IntervalRole, RolesWithLength[t + 1]) = t
          /\ RolesWithLength[t + 1] \o "Length" \in Variants(FabricFeature)
          /\ Discriminant(FabricFeature, RolesWithLength[t + 1] \o "Length") = 12 + t
    /\ Discriminant(IntervalRole, "FacePull") = 8
    /\ "FacePullLength" \notin Variants(FabricFeature)
    /\ Discriminant(FabricFeature, "PushOverPull") = 20
    /\ op = "as" /\ arg[1] = "IntervalRole" /\ ret <= 7 =>
          /\ arg[2] \o "Length" \in Variants(FabricFeature)
          /\ Discriminant(FabricFeature, arg[2] \o "Length") = 12 + ret
    /\ op = "as" /\ arg[1] = "FabricFeature" /\ ret >= 12 /\ ret <= 19 =>
          arg[2] = RolesWithLength[ret - 11] \o "Length"

C10_Witness == op = "as" /\ arg = <<"FabricFeature", "BowEndLength">> /\ ret = 19

(***************************************************************************)
(* Real values, for the statements below: an f32 against the real number a  *)
(* formula of square roots denotes, decided in integers by squaring.        *)
(***************************************************************************)
\* v is the f32 nearest to (1 + sqrt(5)) / 2, a number between 1 and 2:
\* 2 * v.m - 1 < (1 + sqrt(5)) * 2^23 < 2 * v.m + 1
NearestGolden(v) ==
    /\ v.s = 0 /\ v.e = -23 /\ 2^23 <= v.m /\ v.m < 2^24
    /\ BigLt(BigSq(BigFromInt(2 * v.m - 1 - 2^23)), BigShl(<<5>>, 46))
    /\ BigLt(BigShl(<<5>>, 46), BigSq(BigFromInt(2 * v.m + 1 - 2^23)))

\* v is the f32 nearest to sqrt(2): (2 * v.m - 1)^2 < 2 * 2^48 < (2 * v.m + 1)^2
NearestRoot2(v) ==
    /\ v.s = 0 /\ v.e = -23 /\ 2^23 <= v.m /\ v.m < 2^24
    /\ BigLt(BigSq(BigFromInt(2 * v.m - 1)), BigPow2(49))
    /\ BigLt(BigPow2(49), BigSq(BigFromInt(2 * v.m + 1)))

\* a / 2^24 <= sqrt(2 - 2 * sqrt(2/3)), that is 2 * sqrt(2/3) <= 2 - a^2 / 2^48
RingAtLeast(a) ==
    LET rest == BigSub(BigPow2(49), BigSq(BigFromInt(a)))
    IN  /\ BigLeq(BigSq(BigFromInt(a)), BigPow2(49))
        /\ BigLeq(BigPow2(99), BigMulInt(BigSq(rest), 3))

\* sqrt(2 - 2 * sqrt(2/3)) <= b / 2^24
RingAtMost(b) ==
    LET rest == BigSub(BigPow2(49), BigSq(BigFromInt(b)))
    IN  \/ BigLeq(BigPow2(49), BigSq(BigFromInt(b)))
        \/ BigLeq(BigMulInt(BigSq(rest), 3), BigPow2(99))

\* v is within k units in the last place of sqrt(2 - 2 * sqrt(2/3)), a number
\* between 1/2 and 1, where the unit in the last place of an f32 is 2^-24
WithinRing(v, k) ==
    /\ v.s = 0 /\ v.e = -24 /\ 2^23 <= v.m /\ v.m < 2^24
    /\ RingAtLeast(v.m - k)
    /\ RingAtMost(v.m + k)

\* the integer parts of sqrt(2) * 2^32, sqrt(3) * 2^32 and sqrt(5) * 2^32
Root2Floor == BigFromDigits(<<6, 0, 7, 4, 0, 0, 0, 9, 9, 9>>)
Root3Floor == BigFromDigits(<<7, 4, 3, 9, 1, 0, 1, 5, 7, 3>>)
Root5Floor == BigFromDigits(<<9, 6, 0, 3, 8, 3, 8, 8, 3, 4>>)

\* lo <= sqrt(n) * 2^32 < lo + 1
IsRootFloor(lo, n) ==
    /\ BigLeq(BigSq(lo), BigShl(BigFromInt(n), 64))
    /\ BigLt(BigShl(BigFromInt(n), 64), BigSq(BigAdd(lo, <<1>>)))

\* 36 * 2^128 * (CROSS1^2 + CROSS2^2 + CROSS3^2) for the real numbers
\* CROSS1 = 1/2, CROSS2 = (PHI/3 - 1/6) * sqrt(3) = (2 PHI - 1) * sqrt(3) / 6,
\* CROSS3 = PHI/3 * sqrt(3) - 1 + sqrt(2)/sqrt(3)
\*        = (2 PHI * sqrt(3) - 6 + 2 * sqrt(2) * sqrt(3)) / 6 and
\* 2 PHI = 1 + sqrt(5), with r2, r3 and r5 in the place of sqrt(2) * 2^32,
\* sqrt(3) * 2^32 and sqrt(5) * 2^32; it grows with each of r2, r3 and r5
CrossSquare(r2, r3, r5) ==
    LET one    == BigPow2(32)
        twoPhi == BigAdd(one, r5)
        six1   == BigMulInt(BigSq(one), 3)
        six2   == BigMul(BigSub(twoPhi, one), r3)
        six3   == BigSub(BigAdd(BigMul(twoPhi, r3), BigMulInt(BigMul(r2, r3), 2)),
                         BigMulInt(BigSq(one), 6))
    IN  BigAdd(BigAdd(BigSq(six1), BigSq(six2)), BigSq(six3))

CrossSquareLow == CrossSquare(Root2Floor, Root3Floor, Root5Floor)
CrossSquareHigh ==
    CrossSquare(BigAdd(Root2Floor, <<1>>), BigAdd(Root3Floor, <<1>>),
                BigAdd(Root5Floor, <<1>>))

\* v is within k units in the last place of sqrt(CROSS1^2 + CROSS2^2 +
\* CROSS3^2), a number between 1 and 2, where the unit is 2^-23:
\* (v.m - k)^2 / 2^46 <= CROSS1^2 + CROSS2^2 + CROSS3^2 <= (v.m + k)^2 / 2^46
WithinCross(v, k) ==
    /\ v.s = 0 /\ v.e = -23 /\ 2^23 <= v.m /\ v.m < 2^24
    /\ IsRootFloor(Root2Floor, 2)
    /\ IsRootFloor(Root3Floor, 3)
    /\ IsRootFloor(Root5Floor, 5)
    /\ BigLeq(BigShl(BigMulInt(BigSq(BigFromInt(v.m - k)), 36), 128),
              BigShl(CrossSquareLow, 46))
    /\ BigLeq(BigShl(CrossSquareHigh, 46),
              BigShl(BigMulInt(BigSq(BigFromInt(v.m + k)), 36), 128))

(***************************************************************************)
(* C3, as it stands: the module the host uses provides                      *)
(* default_rest_length, defined for every role but FacePull, with           *)
(* NexusPush = PHI, ColumnPush = sqrt(2),                                   *)
(* Triangle = 1.0, Ring and NexusCross the derived lengths, ColumnCross =   *)
(* 1.0, BowMid = 0.4 and BowEnd = 0.6.                                      *)
(***************************************************************************)
C3_AsClaimed ==
    op # "none" =>
        /\ "default_rest_length" \in DOMAIN Module
        /\ DOMAIN Module["default_rest_length"]
              = Variants(IntervalRole) \ {"FacePull"}
        /\ NearestGolden(Module["default_rest_length"]["NexusPush"])
        /\ NearestRoot2(Module["default_rest_length"]["ColumnPush"])
        /\ NearestF32(Module["default_rest_length"]["Triangle"], <<1, 0>>, 1)
        /\ WithinRing(Module["default_rest_length"]["Ring"], 1)
        /\ WithinCross(Module["default_rest_length"]["NexusCross"], 1)
        /\ NearestF32(Module["default_rest_length"]["ColumnCross"], <<1, 0>>, 1)
        /\ NearestF32(Module["default_rest_length"]["BowMid"], <<4>>, 1)
        /\ NearestF32(Module["default_rest_length"]["BowEnd"], <<6>>, 1)

(***************************************************************************)
(* C3, amended: the only function of the module is default_fabric_feature;  *)
(* for every role but FacePull it has the feature named after the role with *)
(* Length appended, whose default is the length of the role: NexusPush the  *)
(* f32 nearest to the golden ratio, ColumnPush the f32 nearest to sqrt(2),  *)
(* Triangle 1.0, Ring within two units in the last place of                 *)
(* sqrt(2 - 2 sqrt(2/3)), NexusCross within one unit of the cross length,   *)
(* ColumnCross 1.0, BowMid the f32 nearest to 0.4 and BowEnd to 0.6.        *)
(***************************************************************************)
C3_RoleLengths ==
    /\ DOMAIN Module = {"default_fabric_feature"}
    /\ \A t \in 1..Len(RolesWithLength) :
          RolesWithLength[t] \o "Length" \in DOMAIN Module["default_fabric_feature"]
    /\ op = "default_fabric_feature" =>
          /\ arg[1] = "NexusPushLength" => NearestGolden(ret)
          /\ arg[1] = "ColumnPushLength" => NearestRoot2(ret)
          /\ arg[1] = "TriangleLength" => NearestF32(ret, <<1, 0>>, 1)
          /\ arg[1] = "RingLength" => WithinRing(ret, 2)
          /\ arg[1] = "NexusCrossLength" => WithinCross(ret, 1)
          /\ arg[1] = "ColumnCrossLength" => NearestF32(ret, <<1, 0>>, 1)
          /\ arg[1] = "BowMidLength" => NearestF32(ret, <<4>>, 1)
          /\ arg[1] = "BowEndLength" => NearestF32(ret, <<6>>, 1)

C3_Witness ==
    /\ op = "default_fabric_feature"
    /\ arg = <<"ColumnPushLength">>
    /\ ret = [s |-> 0, m |-> 11863283, e |-> -23]

(***************************************************************************)
(* C4, as it stands: the default of NexusPushLength returned by             *)
(* default_fabric_feature equals default_rest_length(NexusPush).            *)
(***************************************************************************)
C4_AsClaimed ==
    op = "default_fabric_feature" /\ arg = <<"NexusPushLength">> =>
        /\ "default_rest_length" \in DOMAIN Module
        /\ ret = Module["default_rest_length"]["NexusPush"]

(***************************************************************************)
(* C4, amended: the module has no table of the roles that the table of the  *)
(* features could differ from; the default of NexusPushLength returned by   *)
(* default_fabric_feature is PHI, the f32 nearest to the golden ratio, the  *)
(* length of NexusPush.                                                     *)
(***************************************************************************)
C4_NexusPushLength ==
    /\ "default_rest_length" \notin DOMAIN Module
    /\ op = "default_fabric_feature" /\ arg = <<"NexusPushLength">> =>
          /\ ret = PHI
          /\ NearestGolden(ret)

C4_Witness ==
    /\ op = "default_fabric_feature"
    /\ arg = <<"NexusPushLength">>
    /\ ret = [s |-> 0, m |-> 13573053, e |-> -23]

(***************************************************************************)
(* C9, as it stands: the default of RingLength is within one unit in the    *)
(* last place of sqrt(2 - 2 sqrt(2/3)) and the default of NexusCrossLength  *)
(* within one unit in the last place of sqrt(CROSS1^2 + CROSS2^2 +          *)
(* CROSS3^2).                                                               *)
(***************************************************************************)
C9_AsClaimed ==
    op = "default_fabric_feature" =>
        /\ arg[1] = "RingLength" => WithinRing(ret, 1)
        /\ arg[1] = "NexusCrossLength" => WithinCross(ret, 1)

(***************************************************************************)
(* C9, amended: the default of RingLength is within two units in the last   *)
(* place of sqrt(2 - 2 sqrt(2/3)), more than one unit below it, and the     *)
(* default of NexusCrossLength within one unit in the last place of         *)
(* sqrt(CROSS1^2 + CROSS2^2 + CROSS3^2).                                    *)
(***************************************************************************)
C9_DerivedLengths ==
    op = "default_fabric_feature" =>
        /\ arg[1] = "RingLength" =>
              /\ WithinRing(ret, 2)
              /\ ~RingAtMost(ret.m + 1)
        /\ arg[1] = "NexusCrossLength" => WithinCross(ret, 1)

C9_Witness ==
    /\ op = "default_fabric_feature"
    /\ arg = <<"RingLength">>
    /\ ret = [s |-> 0, m |-> 10163819, e |-> -24]
====
